---- MODULE Spec2Model ----
(***************************************************************************)
(* Model of src/src/energy.c: the k-sample energy test ksampleEtest with   *)
(* its statistic functions multisampleE and twosampleE.                    *)
(*                                                                         *)
(* C arrays are functions on 0..len-1, so indices read as in the source.   *)
(* A double is an exact rational [n, d] in lowest terms with d > 0,        *)
(* extended with the IEEE special values d = 0: NaN (n = 0), +Inf (n = 1)  *)
(* and -Inf (n = -1).  Rounding of finite results is not modelled.         *)
(***************************************************************************)
EXTENDS Integers, Sequences, FiniteSets, TLC

\* ------------------------------------------------------------------ bounds
MaxK == 3
MaxSize == 2
MaxN == 3
FnMaxN == 4
MaxR == 2
MaxDist == 1

\* ------------------------------------------------- double arithmetic (IEEE)
Abs(k) == IF k < 0 THEN -k ELSE k

Sign(k) == IF k < 0 THEN -1 ELSE IF k > 0 THEN 1 ELSE 0

RECURSIVE GCD(_, _)
GCD(a, b) == IF b = 0 THEN a ELSE GCD(b, a % b)

NaN == [n |-> 0, d |-> 0]

Inf(s) == [n |-> s, d |-> 0]

Norm(p, q) ==
    LET g == GCD(Abs(p), Abs(q))
    IN  [n |-> (Sign(q) * p) \div g, d |-> Abs(q) \div g]

\* (double) k
RInt(k) == [n |-> k, d |-> 1]

IsNaN(a) == a.d = 0 /\ a.n = 0

IsFinite(a) == a.d > 0

RNeg(a) == [n |-> -a.n, d |-> a.d]

RAdd(a, b) ==
    IF IsNaN(a) \/ IsNaN(b) THEN NaN
    ELSE IF a.d = 0 /\ b.d = 0 THEN (IF a.n = b.n THEN a ELSE NaN)
    ELSE IF a.d = 0 THEN a
    ELSE IF b.d = 0 THEN b
    ELSE Norm(a.n * b.d + b.n * a.d, a.d * b.d)

RSub(a, b) == RAdd(a, RNeg(b))

RMul(a, b) ==
    IF IsNaN(a) \/ IsNaN(b) THEN NaN
    ELSE IF a.d = 0 \/ b.d = 0
         THEN (IF a.n = 0 \/ b.n = 0 THEN NaN ELSE Inf(Sign(a.n) * Sign(b.n)))
    ELSE Norm(a.n * b.n, a.d * b.d)

\* a / b; every zero divisor in the source is the conversion of the int 0,
\* which is +0.0
RDiv(a, b) ==
    IF IsNaN(a) \/ IsNaN(b) THEN NaN
    ELSE IF a.d = 0 THEN (IF b.d = 0 THEN NaN
                          ELSE Inf(a.n * (IF b.n < 0 THEN -1 ELSE 1)))
    ELSE IF b.d = 0 THEN RInt(0)
    ELSE IF b.n = 0 THEN (IF a.n = 0 THEN NaN ELSE Inf(Sign(a.n)))
    ELSE Norm(a.n * b.d, a.d * b.n)

\* a < b on doubles: false as soon as one side is NaN
RLess(a, b) ==
    IF IsNaN(a) \/ IsNaN(b) THEN FALSE
    ELSE IF a.d = 0 /\ b.d = 0 THEN a.n < b.n
    ELSE IF a.d = 0 THEN a.n < 0
    ELSE IF b.d = 0 THEN b.n > 0
    ELSE a.n * b.d < b.n * a.d

\* --------------------------------------------------------------- twosampleE
\* a pointer p + off into an int array: the array seen from index off on
Offset(p, off) ==
    [t \in 0 .. (Cardinality(DOMAIN p) - 1 - off) |-> p[off + t]]

\* for (i=0; i<m; i++) for (j=i+1; j<m; j++) sum += D[rows[i]][rows[j]];
RECURSIVE WithinLoop(_, _, _, _, _, _)
WithinLoop(D, rows, m, i, j, sum) ==
    IF i >= m THEN sum
    ELSE IF j >= m THEN WithinLoop(D, rows, m, i + 1, i + 2, sum)
    ELSE WithinLoop(D, rows, m, i, j + 1, RAdd(sum, RInt(D[rows[i]][rows[j]])))

WithinOrdered(D, rows, m) ==
    RMul(RInt(2), WithinLoop(D, rows, m, 0, 1, RInt(0)))

WithinSum(D, rows, m) == WithinLoop(D, rows, m, 0, 1, RInt(0))

\* for (i=0; i<m; i++) for (j=0; j<n; j++) sumxy += D[xrows[i]][yrows[j]];
RECURSIVE CrossLoop(_, _, _, _, _, _, _, _)
CrossLoop(D, m, n, xrows, yrows, i, j, sum) ==
    IF i >= m THEN sum
    ELSE IF j >= n THEN CrossLoop(D, m, n, xrows, yrows, i + 1, 0, sum)
    ELSE CrossLoop(D, m, n, xrows, yrows, i, j + 1,
                   RAdd(sum, RInt(D[xrows[i]][yrows[j]])))

CrossSum(D, m, n, xrows, yrows) ==
    CrossLoop(D, m, n, xrows, yrows, 0, 0, RInt(0))

\* if (unbiased == 1) sum *= (double)(m) / (double)(m - 1);
BiasCorrect(sum, m, unbiased) ==
    IF unbiased = 1 THEN RMul(sum, RDiv(RInt(m), RInt(m - 1))) ELSE sum

Degenerate0(m, n) == m <= 1 \/ n <= 1

\* if (m < 1 || n < 1) return 0.0;
Degenerate(m, n) == m < 1 \/ n < 1

twosampleE_xcorrOnly(D, m, n, xrows, yrows, unbiased) ==
    IF Degenerate(m, n) THEN RInt(0)
    ELSE
    LET sumxx == BiasCorrect(RMul(WithinSum(D, xrows, m),
                                  RDiv(RInt(2), RInt(m * m))), m, unbiased)
        sumyy == RMul(WithinSum(D, yrows, n), RDiv(RInt(2), RInt(n * n)))
        sumxy == RDiv(CrossSum(D, m, n, xrows, yrows), RInt(m * n))
    IN  RMul(RDiv(RInt(m * n), RInt(m + n)),
             RSub(RSub(RMul(RInt(2), sumxy), sumxx), sumyy))

twosampleE(D, m, n, xrows, yrows, unbiased) ==
    IF Degenerate(m, n) THEN RInt(0)
    ELSE
    LET sumxx == BiasCorrect(RMul(WithinSum(D, xrows, m),
                                  RDiv(RInt(2), RInt(m * m))), m, unbiased)
        sumyy == BiasCorrect(RMul(WithinSum(D, yrows, n),
                                  RDiv(RInt(2), RInt(n * n))), n, unbiased)
        sumxy == RDiv(CrossSum(D, m, n, xrows, yrows), RInt(m * n))
    IN  RMul(RDiv(RInt(m * n), RInt(m + n)),
             RSub(RSub(RMul(RInt(2), sumxy), sumxx), sumyy))

\* ------------------------------------------------------------- multisampleE
\* M[0] = 0; for (k=1; k<nsamples; k++) M[k] = M[k-1] + sizes[k-1];
RECURSIVE StartIndex(_, _)
StartIndex(sizes, k) ==
    IF k = 0 THEN 0 ELSE StartIndex(sizes, k - 1) + sizes[k - 1]

\* for (i=0; i<nsamples; i++) for (j=i+1; j<nsamples; j++) e += twosampleE(...)
RECURSIVE PairLoop(_, _, _, _, _, _, _, _)
PairLoop(D, nsamples, sizes, perm, unbiased, i, j, e) ==
    IF i >= nsamples THEN e
    ELSE IF j >= nsamples
         THEN PairLoop(D, nsamples, sizes, perm, unbiased, i + 1, i + 2, e)
    ELSE PairLoop(D, nsamples, sizes, perm, unbiased, i, j + 1,
                  RAdd(e, twosampleE(D, sizes[i], sizes[j],
                                     Offset(perm, StartIndex(sizes, i)),
                                     Offset(perm, StartIndex(sizes, j)),
                                     unbiased)))

multisampleE_skipLast(D, nsamples, sizes, perm, unbiased) ==
    PairLoop(D, nsamples - 1, sizes, perm, unbiased, 0, 1, RInt(0))

multisampleE(D, nsamples, sizes, perm, unbiased) ==
    PairLoop(D, nsamples, sizes, perm, unbiased, 0, 1, RInt(0))

\* ------------------------------------------------------------ collaborators
\* vector2matrix(x, y, N, d, isroworder): the flat buffer x as an N x d matrix
vector2matrix(x, N, d, isroworder) ==
    [i \in 0 .. N - 1 |->
        [k \in 0 .. d - 1 |-> IF isroworder = 1 THEN x[i * d + k]
                                               ELSE x[i + N * k]]]

\* distance(bxy, D, N, d): Euclidean distances between the rows of bxy; the
\* inputs drawn below have d <= 1, where the distance is |a - b|
distance(data, N, d) ==
    [i \in 0 .. N - 1 |-> [j \in 0 .. N - 1 |-> Abs(data[i][0] - data[j][0])]]

Bijections(n) ==
    {s \in [0 .. n - 1 -> 0 .. n - 1] : \A i, j \in 0 .. n - 1 : s[i] = s[j] => i = j}

\* permute(J, n): every reordering of J[0..n-1] is a possible outcome
permute(J, n) == {[i \in 0 .. n - 1 |-> J[s[i]]] : s \in Bijections(n)}

\* ------------------------------------------------------------- ksampleEtest
VARIABLES
    pc,        \* position in ksampleEtest
    x, byrow, nsamples, sizes, dim, R, U,   \* arguments (read only)
    e0, e, pval,                            \* output arguments
    pvalIn,    \* value of *pval when the call was made
    N, perm, D, ek, b,                      \* locals
    heap,      \* live allocations
    written,   \* output cells stored to so far: <<name, index>>
    ncalls,    \* number of calls of permute so far
    fcall, fret    \* a direct call of a statistic function and its result

vars == <<pc, x, byrow, nsamples, sizes, dim, R, U, e0, e, pval, pvalIn,
          N, perm, D, ek, b, heap, written, ncalls, fcall, fret>>

args == <<x, byrow, nsamples, sizes, dim, R, U, pvalIn>>

\* N = 0; for (k=0; k<K; k++) N += sizes[k];
RECURSIVE SumSizes(_, _)
SumSizes(sz, K) == IF K = 0 THEN 0 ELSE SumSizes(sz, K - 1) + sz[K - 1]

IdentityPerm_allZero(n) == [i \in 0 .. n - 1 |-> 0]

\* for (i=0; i<N; i++) perm[i] = i;
IdentityPerm(n) == [i \in 0 .. n - 1 |-> i]

BuildD_alwaysDistance(buf, isroworder, n, d) ==
    distance(vector2matrix(buf, n, 1, isroworder), n, 1)

\* D = alloc_matrix(N, N); if (d > 0) {...distance...} else vector2matrix(x, D, ...)
BuildD(buf, isroworder, n, d) ==
    IF d > 0 THEN distance(vector2matrix(buf, n, d, isroworder), n, d)
    ELSE vector2matrix(buf, n, n, isroworder)

HasBootstrap_orZero(B) == B >= 0

\* if (B > 0)
HasBootstrap(B) == B > 0

Exceeds_orTie(obs, rep) == ~RLess(rep, obs) /\ ~IsNaN(obs) /\ ~IsNaN(rep)

\* if ((*e0) < e[b]) ek++;
Exceeds(obs, rep) == RLess(obs, rep)

PvalOf_noCorrection(count, B) == RDiv(RInt(count), RInt(B))

\* (*pval) = ((double) (ek + 1)) / ((double) (B + 1));
PvalOf(count, B) == RDiv(RInt(count + 1), RInt(B + 1))

\* ---- inputs
Pairs(n) == {p \in SUBSET (0 .. n - 1) : Cardinality(p) = 2}

\* symmetric n x n matrices with zero diagonal, entries in 0..MaxDist
SymMatrices(n) ==
    {[i \in 0 .. n - 1 |-> [j \in 0 .. n - 1 |-> IF i = j THEN 0 ELSE f[{i, j}]]] :
        f \in [Pairs(n) -> 0 .. MaxDist]}

Flatten(S, n) == [t \in 0 .. n * n - 1 |-> S[t \div n][t % n]]

SizeVecs ==
    {sz \in UNION {[0 .. K - 1 -> 0 .. MaxSize] : K \in 1 .. MaxK} :
        SumSizes(sz, Cardinality(DOMAIN sz)) <= MaxN}

Init ==
    /\ pc = "setup"
    /\ sizes \in SizeVecs
    /\ nsamples = Cardinality(DOMAIN sizes)
    /\ dim \in {0, 1}
    /\ LET n == SumSizes(sizes, nsamples)
       IN  IF dim = 0
           THEN /\ x \in {Flatten(S, n) : S \in SymMatrices(n)}
                /\ byrow \in {0, 1}
           ELSE /\ x \in [0 .. n - 1 -> 0 .. MaxDist]
                /\ byrow = 1
    /\ R \in -1 .. MaxR
    /\ U \in {0, 1}
    /\ pvalIn \in {RInt(0), RInt(2)}
    /\ pval = pvalIn
    /\ e0 = RInt(0)
    /\ e = [i \in 0 .. R - 1 |-> RInt(0)]
    /\ N = 0 /\ perm = <<>> /\ D = <<>> /\ ek = 0 /\ b = 0
    /\ heap = {}
    /\ written = {}
    /\ ncalls = 0
    /\ fcall = "none" /\ fret = <<>>

\* lines 126-140
Setup ==
    /\ pc = "setup"
    /\ N' = SumSizes(sizes, nsamples)
    /\ perm' = IdentityPerm(N')
    /\ D' = BuildD(x, byrow, N', dim)
    /\ heap' = {"perm", "D"}
    /\ pc' = "observe"
    /\ UNCHANGED <<args, e0, e, pval, ek, b, written, ncalls, fcall, fret>>

\* line 142
Observe ==
    /\ pc = "observe"
    /\ e0' = multisampleE(D, nsamples, sizes, perm, U)
    /\ written' = written \cup {<<"e0", 0>>}
    /\ pc' = "branch"
    /\ UNCHANGED <<args, e, pval, N, perm, D, ek, b, heap, ncalls, fcall, fret>>

\* lines 145-147
EnterBootstrap ==
    /\ pc = "branch"
    /\ HasBootstrap(R)
    /\ ek' = 0
    /\ b' = 0
    /\ pc' = "loop"
    /\ UNCHANGED <<args, e0, e, pval, N, perm, D, heap, written, ncalls, fcall, fret>>

SkipBootstrap ==
    /\ pc = "branch"
    /\ ~HasBootstrap(R)
    /\ pc' = "free"
    /\ UNCHANGED <<args, e0, e, pval, N, perm, D, ek, b, heap, written, ncalls,
                   fcall, fret>>

\* lines 148-152, one iteration
Replicate ==
    /\ pc = "loop"
    /\ b < R
    /\ \E p \in permute(perm, N) :
          LET stat == multisampleE(D, nsamples, sizes, p, U)
          IN  /\ perm' = p
              /\ e' = [e EXCEPT ![b] = stat]
              /\ ek' = IF Exceeds(e0, stat) THEN ek + 1 ELSE ek
    /\ written' = written \cup {<<"e", b>>}
    /\ ncalls' = ncalls + 1
    /\ b' = b + 1
    /\ UNCHANGED <<pc, args, e0, pval, N, D, heap, fcall, fret>>

\* lines 153-154
EndBootstrap ==
    /\ pc = "loop"
    /\ b >= R
    /\ pval' = PvalOf(ek, R)
    /\ written' = written \cup {<<"pval", 0>>}
    /\ pc' = "free"
    /\ UNCHANGED <<args, e0, e, N, perm, D, ek, b, heap, ncalls, fcall, fret>>

\* lines 157-158
Cleanup ==
    /\ pc = "free"
    /\ heap' = {}
    /\ pc' = "done"
    /\ UNCHANGED <<args, e0, e, pval, N, perm, D, ek, b, written, ncalls, fcall, fret>>

Next ==
    \/ Setup
    \/ Observe
    \/ EnterBootstrap
    \/ SkipBootstrap
    \/ Replicate
    \/ EndBootstrap
    \/ Cleanup

Spec == Init /\ [][Next]_vars

\* ------------------------------------- direct calls of the statistic functions
\* the pooled sample of the worked example: groups {0,1,2} and {10,11,12}
ScenarioPoints == <<0, 1, 2, 10, 11, 12>>

ScenarioD ==
    [i \in 0 .. 5 |-> [j \in 0 .. 5 |-> Abs(ScenarioPoints[i + 1] - ScenarioPoints[j + 1])]]

ScenarioSizes == [k \in 0 .. 1 |-> 3]

FnSizeVecs ==
    {sz \in UNION {[0 .. K - 1 -> 0 .. MaxSize] : K \in 1 .. MaxK} :
        SumSizes(sz, Cardinality(DOMAIN sz)) <= FnMaxN}

\* the state in which ksampleEtest calls multisampleE: D built, perm a
\* permutation of 0..N-1
InitFn ==
    /\ pc = "fn"
    /\ \/ /\ sizes \in FnSizeVecs
          /\ N = SumSizes(sizes, Cardinality(DOMAIN sizes))
          /\ D \in SymMatrices(N)
          /\ perm \in Bijections(N)
       \/ /\ sizes = ScenarioSizes
          /\ N = 6
          /\ D = ScenarioD
          /\ perm = IdentityPerm(6)
    /\ nsamples = Cardinality(DOMAIN sizes)
    /\ U \in {0, 1}
    /\ x = <<>> /\ byrow = 1 /\ dim = 0 /\ R = 0
    /\ pvalIn = RInt(0) /\ pval = RInt(0) /\ e0 = RInt(0) /\ e = <<>>
    /\ ek = 0 /\ b = 0
    /\ heap = {"perm", "D"}
    /\ written = {}
    /\ ncalls = 0
    /\ fcall = "none" /\ fret = <<>>

\* twosampleE on groups i < j as multisampleE passes them, and with the two
\* groups exchanged
CallTwosampleE ==
    /\ pc = "fn"
    /\ fcall = "none"
    /\ \E i, j \in 0 .. nsamples - 1 :
          /\ i < j
          /\ LET xrows == Offset(perm, StartIndex(sizes, i))
                 yrows == Offset(perm, StartIndex(sizes, j))
             IN  fret' = [i |-> i, j |-> j,
                          xy |-> twosampleE(D, sizes[i], sizes[j], xrows, yrows, U),
                          yx |-> twosampleE(D, sizes[j], sizes[i], yrows, xrows, U)]
    /\ fcall' = "twosampleE"
    /\ UNCHANGED <<pc, args, e0, e, pval, N, perm, D, ek, b, heap, written, ncalls>>

CallMultisampleE ==
    /\ pc = "fn"
    /\ fcall = "none"
    /\ fret' = [val |-> multisampleE(D, nsamples, sizes, perm, U)]
    /\ fcall' = "multisampleE"
    /\ UNCHANGED <<pc, args, e0, e, pval, N, perm, D, ek, b, heap, written, ncalls>>

NextFn ==
    \/ CallTwosampleE
    \/ CallMultisampleE

SpecFn == InitFn /\ [][NextFn]_vars

\* ===================================================================== claims
Groups == 0 .. nsamples - 1

RECURSIVE SumFnOver(_, _)
SumFnOver(f, S) ==
    IF S = {} THEN 0
    ELSE LET s == CHOOSE t \in S : TRUE IN f[s] + SumFnOver(f, S \ {s})

\* number of pooled observations: the sum of all group sizes
Total == SumFnOver(sizes, Groups)

IsBijection(p, n) ==
    /\ DOMAIN p = 0 .. n - 1
    /\ {p[i] : i \in 0 .. n - 1} = 0 .. n - 1

\* group k of the current permutation: sizes[k] entries from the offset
\* sizes[0] + ... + sizes[k-1]
Slice(k) ==
    [t \in 0 .. sizes[k] - 1 |-> perm[SumFnOver(sizes, 0 .. k - 1) + t]]

Members(k) == {Slice(k)[t] : t \in 0 .. sizes[k] - 1}

Completed == pc = "done"

\* replicates exceeding the observed statistic, strictly
NumExceeding == Cardinality({i \in 0 .. R - 1 : RLess(e0, e[i])})

RLeq(a, c) == RLess(a, c) \/ (a = c /\ ~IsNaN(a))

ObservedIsMax == \A i \in 0 .. R - 1 : RLeq(e[i], e0)

PvalInUnitInterval == RLess(RInt(0), pval) /\ RLeq(pval, RInt(1))

\* C1: after a run with R > 0, pval = (c + 1) / (R + 1) where c counts the
\* replicates b with e0 < e[b] strictly; ties do not count.
C1_PvalCountsStrictExceedances ==
    (Completed /\ R > 0) => pval = Norm(NumExceeding + 1, R + 1)

C1_Witness ==
    /\ Completed /\ R > 0
    /\ \E i, j \in 0 .. R - 1 : e[i] = e0 /\ RLess(e0, e[j])
    /\ pval = Norm(2, R + 1)

\* C2 (as stated): for any R >= 0 the completed run leaves pval in (0,1], and
\* pval = 1/(R+1) when e0 is the maximum of {e0, e[0..R-1]}.
C2_Original ==
    (Completed /\ R >= 0) =>
        /\ PvalInUnitInterval
        /\ ObservedIsMax => pval = Norm(1, R + 1)

\* C2 (amended): for any R > 0 the completed run leaves pval in (0,1], and
\* pval = 1/(R+1) when e0 is the maximum of {e0, e[0..R-1]}.
C2_PvalBoundsWithReplicates ==
    (Completed /\ R > 0) =>
        /\ PvalInUnitInterval
        /\ ObservedIsMax => pval = Norm(1, R + 1)

C2_Witness ==
    /\ Completed /\ R > 0 /\ ObservedIsMax
    /\ \E i \in 0 .. R - 1 : RLess(e[i], e0)
    /\ pval = Norm(1, R + 1)

InvalidConfig ==
    \/ nsamples < 2
    \/ \E k \in Groups : sizes[k] < 1
    \/ R < 0

\* C3: an invalid configuration (K < 2, a size < 1, R < 0) is rejected before
\* D is allocated and before any statistic is computed; no output is written.
C3_InvalidRejected ==
    InvalidConfig =>
        /\ "D" \notin heap
        /\ written = {}
        /\ pc = "setup"

\* C4: with R = 0 only e0 is computed: permute is never called, no entry of
\* e is written and pval keeps the value it had before the call.
C4_ZeroReplicates ==
    R = 0 =>
        /\ ncalls = 0
        /\ written \subseteq {<<"e0", 0>>}
        /\ pval = pvalIn
        /\ Completed => <<"e0", 0>> \in written

C4_Witness ==
    /\ R = 0 /\ Completed /\ written = {<<"e0", 0>>}
    /\ nsamples = 2 /\ e0.n # 0 /\ pval = RInt(2)

\* C5: perm is a bijection on 0..N-1, N the sum of the sizes, throughout the
\* run: the identity when e0 is computed, and still a bijection after each
\* in-place shuffle, when e[b] is computed.
C5_PermBijection ==
    /\ pc \in {"observe", "branch", "loop", "free"} =>
          /\ N = Total
          /\ IsBijection(perm, N)
    /\ pc \in {"observe", "branch"} => \A i \in 0 .. N - 1 : perm[i] = i

C5_Witness ==
    /\ pc = "loop" /\ b = 2 /\ N = 3
    /\ perm[0] = 2 /\ IsBijection(perm, N)
    /\ <<"e", 1>> \in written

\* C9: after setup D is never written: computing e0 and the replicates leaves
\* D (and the caller's buffer x) unchanged, and with d = 0 the contents of D
\* are the entries of x, not recomputed.
C9_DistanceMatrixReadOnly ==
    [][ /\ pc \in {"observe", "branch", "loop"} => (D' = D /\ x' = x)
        /\ (dim' = 0 /\ "D" \in heap') =>
              /\ x' = x
              /\ \A i, j \in 0 .. N' - 1 :
                    D'[i][j] = x'[IF byrow' = 1 THEN i * N' + j ELSE i + N' * j]
      ]_vars

C9_Witness ==
    /\ Completed /\ dim = 0 /\ ncalls = 2 /\ N = 3
    /\ D[0][1] = 1 /\ D[1][2] = 0
    /\ x[1] = 1 /\ x[5] = 0

SingletonPair(i, j) ==
    /\ sizes[i] >= 1 /\ sizes[j] >= 1
    /\ sizes[i] = 1 \/ sizes[j] = 1

PairStat(i, j) ==
    twosampleE(D, sizes[i], sizes[j], Slice(i), Slice(j), U)

\* C10: with unbiased = 1 and a group of size exactly 1 (both sizes >= 1)
\* twosampleE divides by zero unguarded and returns a non-finite value, which
\* reaches e0 and every e[b]; only m < 1 or n < 1 is guarded, returning 0.
C10_SingletonUnbiasedNonFinite ==
    pc \in {"observe", "branch", "loop", "free", "done"} =>
        /\ \A i, j \in Groups :
              i < j =>
                 /\ (U = 1 /\ SingletonPair(i, j)) => ~IsFinite(PairStat(i, j))
                 /\ (sizes[i] < 1 \/ sizes[j] < 1) => PairStat(i, j) = RInt(0)
        /\ (U = 1 /\ \E i, j \in Groups : i < j /\ SingletonPair(i, j)) =>
              /\ <<"e0", 0>> \in written => ~IsFinite(e0)
              /\ \A t \in 0 .. R - 1 : <<"e", t>> \in written => ~IsFinite(e[t])

C10_Witness ==
    /\ Completed /\ U = 1 /\ R = 2
    /\ nsamples = 2 /\ sizes[0] = 1 /\ sizes[1] = 2
    /\ IsNaN(e0) /\ IsNaN(e[0]) /\ IsNaN(e[1])
    /\ pval = Norm(1, 3)

\* ---- claims about direct calls (SpecFn)
GroupPairs == {p \in Groups \X Groups : p[1] < p[2]}

RECURSIVE SumStatOver(_)
SumStatOver(S) ==
    IF S = {} THEN RInt(0)
    ELSE LET p == CHOOSE q \in S : TRUE
         IN  RAdd(PairStat(p[1], p[2]), SumStatOver(S \ {p}))

\* C6: for K >= 2 multisampleE returns the sum of twosampleE over every pair
\* of groups i < j, each once, group k being the slice of perm of length
\* sizes[k] at offset sizes[0]+...+sizes[k-1]; the slices are pairwise
\* disjoint and cover perm; for K = 2 it is twosampleE of the two groups.
C6_MultisampleIsPairSum ==
    (fcall = "multisampleE" /\ nsamples >= 2) =>
        /\ fret.val = SumStatOver(GroupPairs)
        /\ \A i, j \in Groups : i # j => Members(i) \cap Members(j) = {}
        /\ UNION {Members(k) : k \in Groups} = {perm[i] : i \in 0 .. N - 1}
        /\ nsamples = 2 => fret.val = PairStat(0, 1)

C6_Witness ==
    /\ fcall = "multisampleE" /\ nsamples = 3
    /\ \A k \in Groups : sizes[k] >= 1
    /\ perm[0] # 0
    /\ IsFinite(fret.val) /\ fret.val.n # 0
    /\ fret.val # PairStat(0, 1)

Symmetric(M, n) == \A i, j \in 0 .. n - 1 : M[i][j] = M[j][i]

UnorderedPairs(m) == {p \in (0 .. m - 1) \X (0 .. m - 1) : p[1] < p[2]}

\* sum of D over the unordered pairs within group k, each pair once
WithinTotal(k) ==
    SumFnOver([p \in UnorderedPairs(sizes[k]) |-> D[Slice(k)[p[1]]][Slice(k)[p[2]]]],
              UnorderedPairs(sizes[k]))

\* sum of D over all cross pairs of groups i and j
CrossTotal(i, j) ==
    LET C == (0 .. sizes[i] - 1) \X (0 .. sizes[j] - 1)
    IN  SumFnOver([p \in C |-> D[Slice(i)[p[1]]][Slice(j)[p[2]]]], C)

\* (m n / (m + n)) (2 Sxy/(m n) - (2/m^2) Sxx - (2/n^2) Syy) as one fraction
BiasedEnergy(i, j) ==
    LET m == sizes[i]
        n == sizes[j]
    IN  Norm(2 * CrossTotal(i, j) * m * n - 2 * WithinTotal(i) * n * n
                 - 2 * WithinTotal(j) * m * m,
             (m + n) * m * n)

IsScenario == D = ScenarioD /\ sizes = ScenarioSizes

\* C8: with unbiased = 0 and m, n >= 1, twosampleE = (m n/(m+n)) (2 sumxy -
\* sumxx - sumyy), sumxy the mean of the m n cross distances, sumxx (sumyy)
\* 2/m^2 (2/n^2) times the sum over unordered within-group pairs, each once,
\* no diagonal; for A = {0,1,2}, B = {10,11,12} this is 82/3.
C8_BiasedFormula ==
    (/\ fcall = "twosampleE" /\ U = 0
     /\ sizes[fret.i] >= 1 /\ sizes[fret.j] >= 1) =>
        /\ fret.xy = BiasedEnergy(fret.i, fret.j)
        /\ IsScenario => fret.xy = Norm(82, 3)

C8_Witness ==
    /\ fcall = "twosampleE" /\ U = 0 /\ IsScenario
    /\ fret.xy = [n |-> 82, d |-> 3]

====
